---- MODULE Spec2Model ----
(***************************************************************************)
(* Post-processing pipeline of Watcher3 (core/postprocessing.py).          *)
(*                                                                         *)
(* Spec      one POST request from start to end, from the record store     *)
(*           states earlier requests leave, with collaborator and          *)
(*           filesystem failures.                                          *)
(* SpecMap   map_remote as a function of strings.                          *)
(* SpecLocate, SpecTemplate, SpecSanitize                                  *)
(*           get_movie_file, the renamer's template check and sanitize as  *)
(*           functions of their arguments.                                 *)
(* SpecMover mover, step by step, called again and again for a file of     *)
(*           the same name into the same target folder.                    *)
(* SpecKeep  one call of mover, also for a file that is the file mover     *)
(*           displaces.                                                    *)
(* SpecPar   two requests whose steps interleave.                          *)
(* SpecCompile   compile_path as a function of template and values.        *)
(* SpecSidecars  the mover's loop over the additional files to keep.       *)
(*                                                                         *)
(* Strings that the code inspects (paths, prefixes) are sequences of       *)
(* one-character strings.  Python's None is NULL, a dict key that was      *)
(* never set is UNSET.                                                     *)
(***************************************************************************)
EXTENDS Integers, Sequences, FiniteSets, TLC

VARIABLES
    pc,             \* position of the request handler
    cfg,            \* core.CONFIG as read by the running request
    req,            \* what POST validates of **data: its keys, apikey, mode
    data,           \* the working dict `data`
    result,         \* the dict `result` / `response` (status, tasks)
    outcome,        \* how POST ended: none, invalid, report, exception
    error,          \* 'error' of a validation response
    log,            \* calls made to the filesystem and the collaborators, in order
    MOVIES,         \* record store, table MOVIES
    SEARCHRESULTS,  \* record store, table SEARCHRESULTS (status per guid)
    MARKEDRESULTS,  \* record store, table MARKEDRESULTS (status per guid)
    fs,             \* the filesystem around data['path']
    today,          \* datetime.date.today()
    mpath,          \* SpecMap: the path given to map_remote
    mmaps,          \* SpecMap: RemoteMapping, an ordered dict as a sequence of pairs
    mout,           \* SpecMap: what map_remote returned
    loc,            \* SpecLocate: the path given to get_movie_file and its result
    tpl,            \* SpecTemplate: a renamerstring and the verdict of the check
    san,            \* SpecSanitize: string, replacement, platform and result
    mv,             \* SpecMover: the mover's position, its filesystem and result
    par,            \* SpecPar: two requests, the record store and filesystem they share
    cmp,            \* SpecCompile: arguments, configuration and result of compile_path
    sc              \* SpecSidecars: the mover's copies of additional files

vars == <<pc, cfg, req, data, result, outcome, error, log, MOVIES, SEARCHRESULTS,
          MARKEDRESULTS, fs, today, mpath, mmaps, mout, loc, tpl, san, mv, par,
          cmp, sc>>

pipevars == <<pc, cfg, req, data, result, outcome, error, log, MOVIES, SEARCHRESULTS,
              MARKEDRESULTS, fs, today>>

mapvars == <<mpath, mmaps, mout>>

funvars == <<loc, tpl, san, mv, par, cmp, sc>>

NULL == "null"

UNSET == "unset"

(***************************************************************************)
(* Bounds.                                                                 *)
(***************************************************************************)
MaxPathLen == 4

MaxPrefixLen == 2

MaxMaps == 2

\* SpecLocate: files under the directory, and their greatest size in bytes
MaxFiles == 3

MaxFileSize == 3

\* SpecTemplate: characters of a renamerstring
MaxTemplateLen == 4

\* SpecSanitize: characters of the string given to sanitize
MaxStringLen == 4

\* SpecCompile: pieces of a template
MaxCompileTokens == 3

\* SpecSidecars: files under data['path']
MaxSidecars == 2

\* SpecMover: calls of mover in a row
MaxMoves == 3

(***************************************************************************)
(* Strings.                                                                *)
(***************************************************************************)
Chars == {"a", "b"}

StringsUpTo(n) == UNION {[1..k -> Chars] : k \in 0..n}

\* str.startswith(prefix)
startswith(s, p) == Len(p) <= Len(s) /\ SubSeq(s, 1, Len(p)) = p

Drop(s, n) == SubSeq(s, n + 1, Len(s))

\* str.replace(old, new) for a non-empty old: every non-overlapping occurrence,
\* scanning from the left
RECURSIVE replace(_, _, _)
replace(s, old, new) ==
    IF s = <<>> THEN <<>>
    ELSE IF startswith(s, old) THEN new \o replace(Drop(s, Len(old)), old, new)
    ELSE <<Head(s)>> \o replace(Tail(s), old, new)

\* max(matches, key=len): the first of the longest ones, in the order given
RECURSIVE maxlen(_)
maxlen(matches) ==
    IF Len(matches) = 1 THEN matches[1]
    ELSE LET rest == maxlen(Tail(matches))
         IN  IF Len(rest) > Len(Head(matches)) THEN rest ELSE Head(matches)

\* [remote for remote in maps.keys() if path.startswith(remote)]
RECURSIVE remote_matches(_, _)
remote_matches(path, maps) ==
    IF maps = <<>> THEN <<>>
    ELSE (IF startswith(path, maps[1][1]) THEN <<maps[1][1]>> ELSE <<>>)
         \o remote_matches(path, Tail(maps))

\* maps[match]
lookup(maps, key) == maps[CHOOSE i \in 1..Len(maps) : maps[i][1] = key][2]

map_remote(path, maps) ==
    LET matches == remote_matches(path, maps)
    IN  IF matches = <<>> THEN path
        ELSE LET match == maxlen(matches)
             IN  replace(path, match, lookup(maps, match))

(***************************************************************************)
(* Requests, configuration, record store, filesystem.                      *)
(***************************************************************************)
B(b) == IF b THEN "true" ELSE "false"

\* whether a call to a collaborator or to the filesystem goes through
Outcomes == BOOLEAN

RequiredKeys == {"apikey", "mode", "guid", "path"}

Guids == {"", "g1", "g2"}

Imdbids == {"tt1"}

\* the path the downloader reports, and the remote mapping that applies to it
RequestPath == <<"a", "b">>

RemoteMapping == << << <<"a">>, <<"b">> >> >>

CanonicalRequest ==
    [keys |-> RequiredKeys, apikey |-> "good", mode |-> "complete", guid |-> "g1",
     imdbid |-> NULL, downloadid |-> NULL, path |-> RequestPath]

ValidRequests ==
    [keys : {RequiredKeys}, apikey : {"good"}, mode : {"complete", "failed"},
     guid : Guids, imdbid : {NULL} \cup Imdbids, downloadid : {NULL, "d1"},
     path : {RequestPath}]

InvalidRequests ==
    {[CanonicalRequest EXCEPT !.keys = RequiredKeys \ {k}] : k \in RequiredKeys}
    \cup {[CanonicalRequest EXCEPT !.apikey = "bad"],
          [CanonicalRequest EXCEPT !.mode = "other"],
          [CanonicalRequest EXCEPT !.apikey = "bad", !.mode = "failed"],
          [CanonicalRequest EXCEPT !.keys = RequiredKeys \ {"guid"}, !.mode = "other"]}

Requests == ValidRequests \cup InvalidRequests

MoverMethods == {"move", "hardlink", "symboliclink"}

\* config['renamerstring']: '{t}', 't' and 't{t}'
RenamerStrings == {<<"{", "t", "}">>, <<"t">>, <<"t", "{", "t", "}">>}

DefaultConfig ==
    [apikey |-> "good", renamerenabled |-> FALSE, moverenabled |-> FALSE,
     cleanupenabled |-> FALSE, movermethod |-> "move", cleanupfailed |-> FALSE,
     autograb |-> FALSE, RemoteMapping |-> RemoteMapping,
     renamerstring |-> <<"{", "t", "}">>]

\* core.CONFIG when a request arrives; the options a branch never reads are
\* held at their defaults
ConfigsFor(mode) ==
    IF mode = "complete"
    THEN {c \in [apikey : {"good"}, renamerenabled : BOOLEAN, moverenabled : BOOLEAN,
                  cleanupenabled : BOOLEAN, movermethod : MoverMethods,
                  cleanupfailed : {FALSE}, autograb : {FALSE},
                  RemoteMapping : {RemoteMapping}, renamerstring : RenamerStrings] :
             c.renamerenabled \/ c.renamerstring = DefaultConfig.renamerstring}
    ELSE [apikey : {"good"}, renamerenabled : {FALSE}, moverenabled : {FALSE},
          cleanupenabled : {FALSE}, movermethod : {"move"},
          cleanupfailed : BOOLEAN, autograb : BOOLEAN,
          RemoteMapping : {RemoteMapping},
          renamerstring : {DefaultConfig.renamerstring}]

\* rows of SEARCHRESULTS: guid, imdbid, downloadid (their status is the variable)
SearchRows == {[guid |-> "g1", imdbid |-> "tt1", downloadid |-> "d1", score |-> "s1"]}

\* str(datetime.date.today()) on day d, and a date that was never set
Date(d) == <<d>>

NoDate == <<>>

NoRow ==
    [present |-> FALSE, finished_date |-> NoDate, finished_file |-> NULL,
     finished_score |-> NULL, status |-> NULL]

\* states of the MOVIES row of an imdb id that earlier requests can have left
StoredRows ==
    {NoRow,
     [present |-> TRUE, finished_date |-> NoDate, finished_file |-> NULL,
      finished_score |-> NULL, status |-> "Snatched"],
     [present |-> TRUE, finished_date |-> Date(0), finished_file |-> "old",
      finished_score |-> "s1", status |-> "Finished"]}

\* what data['path'] names: a file, an unlistable path, or a directory with
\* the byte sizes of the files under it in os.walk order
Sources ==
    {[src |-> "file", sizes |-> <<1>>],
     [src |-> "missing", sizes |-> <<>>],
     [src |-> "dir", sizes |-> <<>>],
     [src |-> "dir", sizes |-> <<0, 0>>],
     [src |-> "dir", sizes |-> <<1, 2>>]}

NoFs == [src |-> UNSET, given |-> UNSET, sizes |-> <<>>, files |-> {}]

NoData ==
    [guid |-> UNSET, guid2 |-> UNSET, imdbid |-> NULL, downloadid |-> NULL,
     path |-> <<>>, movie_file |-> UNSET, original_file |-> UNSET,
     finished_file |-> UNSET, finished_date |-> NoDate, finished_score |-> UNSET,
     quality |-> UNSET, status |-> UNSET]

NoGuidTask == [present |-> FALSE, sr |-> UNSET, mr |-> UNSET]

NoTask == [present |-> FALSE, enabled |-> UNSET, response |-> UNSET]

NoResult ==
    [status |-> UNSET,
     tasks |-> [guid |-> NoGuidTask, guid2 |-> NoGuidTask,
                update_movie_status |-> UNSET, renamer |-> NoTask,
                mover |-> NoTask, cleanup |-> NoTask, autograb |-> NoTask]]

Call(kind, op, arg) == <<kind, op, arg>>

Called(kind, op) == \E i \in 1..Len(log) : log[i][1] = kind /\ log[i][2] = op

(***************************************************************************)
(* POST: validation, path mapping, file location, release information.     *)
(***************************************************************************)
KeyOrder == <<"apikey", "mode", "guid", "path">>

RECURSIVE first_missing(_, _)
first_missing(keys, i) ==
    IF i > Len(KeyOrder) THEN ""
    ELSE IF KeyOrder[i] \notin keys THEN KeyOrder[i]
    ELSE first_missing(keys, i + 1)

\* ValidationError without the api key check
ValidationErrorNoKeyCheck(r, apikey) ==
    IF first_missing(r.keys, 1) # "" THEN "missing key"
    ELSE IF r.mode \notin {"failed", "complete"} THEN "invalid mode value"
    ELSE ""

\* the checks of POST before any processing; "" when the request passes
ValidationError(r, apikey) ==
    IF first_missing(r.keys, 1) # "" THEN "missing key"
    ELSE IF r.apikey # apikey THEN "incorrect api key"
    ELSE IF r.mode \notin {"failed", "complete"} THEN "invalid mode value"
    ELSE ""

\* the loop over the files of the directory: index of the biggest file,
\* 0 for None (no file is bigger than 0 bytes)
RECURSIVE biggestfile(_, _, _, _)
biggestfile(sizes, i, best, s) ==
    IF i > Len(sizes) THEN best
    ELSE IF sizes[i] > s THEN biggestfile(sizes, i + 1, i, sizes[i])
    ELSE biggestfile(sizes, i + 1, best, s)

\* "orig": the path of a file; "": nothing found; NULL: None
get_movie_file(f) ==
    IF f.src = "file" THEN "orig"
    ELSE IF f.src # "dir" THEN ""
    ELSE IF f.sizes = <<>> THEN ""
    ELSE IF biggestfile(f.sizes, 1, 0, 0) = 0 THEN NULL
    ELSE "orig"

\* core.sql.get_single_search_result(column, value); {} when there is none
get_single_search_result(column, value) ==
    {row \in SearchRows : row[column] = value}

\* metadata.from_file: the fields probed from the file, unknown ones None
from_file(movie_file) == [imdbid |-> NULL]

\* second_guid falling back on the reported guid
second_guid_or_guid(bydl, guid) ==
    IF bydl # {} THEN (CHOOSE r \in bydl : TRUE).guid ELSE guid

\* lines 181-184: the guid of the result found by downloadid, when it is not
\* the guid of the request; UNSET leaves data without a 'guid2' key
second_guid(bydl, guid) ==
    IF bydl # {} /\ (CHOOSE r \in bydl : TRUE).guid # guid
    THEN (CHOOSE r \in bydl : TRUE).guid
    ELSE UNSET

get_movie_info(d, movies) ==
    LET byguid == get_single_search_result("guid", d.guid)
        bydl   == IF byguid = {} /\ d.downloadid # NULL
                  THEN get_single_search_result("downloadid", d.downloadid)
                  ELSE {}
        found  == byguid \cup bydl
        d1     == [d EXCEPT !.guid2 = second_guid(bydl, d.guid)]
        calls  == <<Call("sql", "get_single_search_result", "guid")>>
                  \o (IF byguid = {} /\ d.downloadid # NULL
                      THEN <<Call("sql", "get_single_search_result", "downloadid")>>
                      ELSE <<>>)
                  \o (IF found # {} THEN <<Call("sql", "get_movie_details", "imdbid")>>
                      ELSE <<>>)
                  \o <<Call("metadata", "from_file", "movie_file")>>
    IN  IF found # {} /\ movies[(CHOOSE r \in found : TRUE).imdbid].present
        THEN LET r     == CHOOSE x \in found : TRUE
                 local == movies[r.imdbid]
             IN  [data |-> [d1 EXCEPT !.imdbid = r.imdbid,
                                      !.status = local.status,
                                      !.finished_date = local.finished_date,
                                      !.finished_file = local.finished_file,
                                      !.finished_score = r.score,
                                      !.downloadid = r.downloadid],
                  calls |-> calls]
        ELSE [data |-> [d1 EXCEPT !.imdbid =
                            IF d.imdbid # NULL THEN d.imdbid
                            ELSE from_file(d.movie_file).imdbid],
              calls |-> calls]

POST ==
    /\ pc = "idle"
    /\ \E r \in Requests :
        /\ req' = [keys |-> r.keys, apikey |-> r.apikey, mode |-> r.mode]
        /\ IF ValidationError(r, cfg.apikey) # ""
           THEN /\ error' = ValidationError(r, cfg.apikey)
                /\ outcome' = "invalid"
                /\ pc' = "done"
                /\ data' = NoData
                /\ result' = NoResult
                /\ log' = <<>>
                /\ fs' = NoFs
                /\ UNCHANGED cfg
           ELSE \E c \in ConfigsFor(r.mode), f \in Sources :
                LET path == map_remote(r.path, c.RemoteMapping)
                    mf   == get_movie_file(f)
                    d0   == [NoData EXCEPT !.guid = r.guid, !.imdbid = r.imdbid,
                                           !.downloadid = r.downloadid,
                                           !.path = path, !.movie_file = mf]
                    info == get_movie_info(d0, MOVIES)
                IN  /\ cfg' = c
                    /\ fs' = [src |-> f.src, given |-> f.src, sizes |-> f.sizes,
                              files |-> IF mf = "orig" THEN {"orig"} ELSE {}]
                    /\ data' = info.data
                    /\ log' = <<Call("fs", "isfile", "path")>>
                              \o (IF f.src # "file"
                                  THEN <<Call("fs", "listdir", "path")>> ELSE <<>>)
                              \o info.calls
                    /\ result' = NoResult
                    /\ error' = ""
                    /\ outcome' = "none"
                    /\ pc' = IF r.mode = "failed" THEN "failed" ELSE "complete"
    /\ UNCHANGED <<MOVIES, SEARCHRESULTS, MARKEDRESULTS, today, mapvars, funvars>>

(***************************************************************************)
(* Collaborators: core.manage (status manager) and Cleanup.                *)
(***************************************************************************)
\* core.manage.searchresults(guid, status): the table after a call that went
\* through (ok) or did not
searchresults(table, guid, status, ok) ==
    IF ok /\ guid \in DOMAIN table THEN [table EXCEPT ![guid] = status] ELSE table

\* core.manage.markedresults(guid, status, imdbid)
markedresults(table, guid, status, ok) ==
    IF ok /\ guid \in DOMAIN table THEN [table EXCEPT ![guid] = status] ELSE table

\* core.manage.movie_status(imdbid): the aggregate of the movie's search results
movie_status(imdbid, table) ==
    LET st == {table[row.guid] : row \in {x \in SearchRows : x.imdbid = imdbid}}
    IN  IF "Finished" \in st THEN "Finished"
        ELSE IF "Snatched" \in st THEN "Snatched"
        ELSE "Wanted"

set_movie_status(movies, imdbid, status) ==
    IF imdbid \in DOMAIN movies /\ movies[imdbid].present
    THEN [movies EXCEPT ![imdbid].status = status]
    ELSE movies

\* cleanup answering True whenever nothing is left at path
cleanup_true_when_gone(f, ok) ==
    IF f.src = "dir"
    THEN [ret   |-> ok,
          fs    |-> IF ok THEN [f EXCEPT !.src = "missing", !.sizes = <<>>,
                                          !.files = f.files \ {"orig", "renamed"}]
                    ELSE f,
          calls |-> <<Call("fs", "rmtree", "path")>>]
    ELSE IF f.src = "file"
    THEN [ret   |-> ok,
          fs    |-> IF ok THEN [f EXCEPT !.src = "missing", !.sizes = <<>>,
                                          !.files = f.files \ {"orig", "symlink"}]
                    ELSE f,
          calls |-> <<Call("fs", "remove", "path")>>]
    ELSE [ret |-> TRUE, fs |-> f, calls |-> <<>>]

\* cleanup(path): ok is whether the filesystem lets the deletion through
cleanup(f, ok) ==
    IF f.src = "dir"
    THEN [ret   |-> ok,
          fs    |-> IF ok THEN [f EXCEPT !.src = "missing", !.sizes = <<>>,
                                          !.files = f.files \ {"orig", "renamed"}]
                    ELSE f,
          calls |-> <<Call("fs", "rmtree", "path")>>]
    ELSE IF f.src = "file"
    THEN [ret   |-> ok,
          fs    |-> IF ok THEN [f EXCEPT !.src = "missing", !.sizes = <<>>,
                                          !.files = f.files \ {"orig", "symlink"}]
                    ELSE f,
          calls |-> <<Call("fs", "remove", "path")>>]
    ELSE [ret |-> FALSE, fs |-> f, calls |-> <<>>]

(***************************************************************************)
(* failed(data)                                                            *)
(***************************************************************************)
\* after_failed_guid giving up when the search result could not be marked
after_failed_guid_abort(sr) == IF sr = "false" THEN "return" ELSE "failed_guid2"

\* where failed() goes on after marking the primary guid
after_failed_guid(sr) == "failed_guid2"

FailedGuid ==
    /\ pc = "failed"
    /\ IF data.guid # ""
       THEN \E a \in Outcomes, b \in Outcomes :
            /\ SEARCHRESULTS' = searchresults(SEARCHRESULTS, data.guid, "Bad", a)
            /\ MARKEDRESULTS' = markedresults(MARKEDRESULTS, data.guid, "Bad", b)
            /\ result' = [status |-> "finished",
                          tasks |-> [result.tasks EXCEPT
                              !.guid = [present |-> TRUE, sr |-> B(a), mr |-> B(b)]]]
            /\ log' = log \o <<Call("manage", "searchresults", "guid"),
                               Call("manage", "markedresults", "guid")>>
            /\ pc' = after_failed_guid(B(a))
       ELSE /\ result' = [status |-> "finished",
                          tasks |-> [result.tasks EXCEPT !.guid.present = TRUE]]
            /\ pc' = after_failed_guid(UNSET)
            /\ UNCHANGED <<SEARCHRESULTS, MARKEDRESULTS, log>>
    /\ UNCHANGED <<cfg, req, data, outcome, error, MOVIES, fs, today,
                   mapvars, funvars>>

FailedGuid2 ==
    /\ pc = "failed_guid2"
    /\ IF data.guid2 # UNSET
       THEN \E a \in Outcomes, b \in Outcomes :
            /\ SEARCHRESULTS' = searchresults(SEARCHRESULTS, data.guid2, "Bad", a)
            /\ MARKEDRESULTS' = markedresults(MARKEDRESULTS, data.guid2, "Bad", b)
            /\ result' = [result EXCEPT
                              !.tasks.guid2 = [present |-> TRUE, sr |-> B(a), mr |-> B(b)]]
            /\ log' = log \o <<Call("manage", "searchresults", "guid2"),
                               Call("manage", "markedresults", "guid2")>>
       ELSE UNCHANGED <<SEARCHRESULTS, MARKEDRESULTS, result, log>>
    /\ pc' = "failed_status"
    /\ UNCHANGED <<cfg, req, data, outcome, error, MOVIES, fs, today,
                   mapvars, funvars>>

\* FailedStatus with the finished date stamped as complete() does
FailedStatusStamps ==
    /\ pc = "failed_status"
    /\ IF data.imdbid # NULL
       THEN LET r == movie_status(data.imdbid, SEARCHRESULTS)
            IN  /\ MOVIES' = [set_movie_status(MOVIES, data.imdbid, r) EXCEPT
                                  ![data.imdbid].finished_date = NoDate]
                /\ result' = [result EXCEPT !.tasks.update_movie_status = r]
                /\ log' = log \o <<Call("manage", "movie_status", "imdbid")>>
       ELSE /\ result' = [result EXCEPT !.tasks.update_movie_status = ""]
            /\ UNCHANGED <<MOVIES, log>>
    /\ pc' = "failed_cleanup"
    /\ UNCHANGED <<cfg, req, data, outcome, error, SEARCHRESULTS, MARKEDRESULTS, fs,
                   today, mapvars, funvars>>

FailedStatus ==
    /\ pc = "failed_status"
    /\ IF data.imdbid # NULL
       THEN LET r == movie_status(data.imdbid, SEARCHRESULTS)
            IN  /\ MOVIES' = set_movie_status(MOVIES, data.imdbid, r)
                /\ result' = [result EXCEPT !.tasks.update_movie_status = r]
                /\ log' = log \o <<Call("manage", "movie_status", "imdbid")>>
       ELSE /\ result' = [result EXCEPT !.tasks.update_movie_status = ""]
            /\ UNCHANGED <<MOVIES, log>>
    /\ pc' = "failed_cleanup"
    /\ UNCHANGED <<cfg, req, data, outcome, error, SEARCHRESULTS, MARKEDRESULTS, fs,
                   today, mapvars, funvars>>

FailedCleanup ==
    /\ pc = "failed_cleanup"
    /\ IF cfg.cleanupfailed
       THEN \E ok \in Outcomes :
            LET c == cleanup(fs, ok)
            IN  /\ fs' = c.fs
                /\ log' = log \o <<Call("self", "cleanup", "path")>> \o c.calls
                /\ result' = [result EXCEPT !.tasks.cleanup =
                                  [present |-> TRUE, enabled |-> "true",
                                   response |-> B(c.ret)]]
       ELSE /\ result' = [result EXCEPT !.tasks.cleanup =
                              [present |-> TRUE, enabled |-> "false",
                               response |-> UNSET]]
            /\ UNCHANGED <<fs, log>>
    /\ pc' = "failed_autograb"
    /\ UNCHANGED <<cfg, req, data, outcome, error, MOVIES, SEARCHRESULTS,
                   MARKEDRESULTS, today, mapvars, funvars>>

\* data.get('quality') is first read here: q is what get_movie_info left there;
\* best is whether snatcher.best_release finds a release
\* can_autograb without the test of the quality
can_autograb_by_imdbid(d, q) == d.imdbid # NULL

\* line 298: data.get('imdbid') and data.get('quality')
can_autograb(d, q) == d.imdbid # NULL /\ q # NULL

\* q: data['quality'] as get_movie_info left it; best: snatcher.best_release
\* returns a release; ok: snatcher.download returns True.  The log keeps what
\* the snatcher answered.
FailedAutograb ==
    /\ pc = "failed_autograb"
    /\ IF cfg.autograb
       THEN \E q \in {NULL, "q"}, best \in BOOLEAN, ok \in Outcomes :
            LET grab == can_autograb(data, q)
                r    == grab /\ best /\ ok
            IN  /\ data' = [data EXCEPT !.quality = q]
                /\ log' = log
                          \o (IF grab THEN <<Call("snatcher", "best_release", B(best))>>
                              ELSE <<>>)
                          \o (IF grab /\ best
                              THEN <<Call("snatcher", "download", B(ok))>>
                              ELSE <<>>)
                /\ result' = [status |-> "finished",
                              tasks |-> [result.tasks EXCEPT !.autograb =
                                  [present |-> TRUE, enabled |-> "true",
                                   response |-> B(r)]]]
       ELSE /\ result' = [status |-> "finished",
                          tasks |-> [result.tasks EXCEPT !.autograb =
                              [present |-> TRUE, enabled |-> "false",
                               response |-> UNSET]]]
            /\ UNCHANGED <<data, log>>
    /\ pc' = "return"
    /\ UNCHANGED <<cfg, req, outcome, error, MOVIES, SEARCHRESULTS, MARKEDRESULTS, fs,
                   today, mapvars, funvars>>

(***************************************************************************)
(* complete(data): record store updates                                    *)
(***************************************************************************)
\* dict.get(key): None for a key that was never set
Get(v) == IF v = UNSET THEN NULL ELSE v

\* core.manage.add_movie(data): the row inserted for the movie
add_movie(d) ==
    [present |-> TRUE, finished_date |-> d.finished_date,
     finished_file |-> Get(d.finished_file), finished_score |-> Get(d.finished_score),
     status |-> d.status]

\* marks_guid without the look at the imdb id
marks_guid_without_imdbid(d) == d.guid # ""

\* line 352: if data['guid'] and data.get('imdbid')
marks_guid(d) == d.guid # "" /\ d.imdbid # NULL

CompleteGuid ==
    /\ pc = "complete"
    /\ data' = [data EXCEPT !.finished_date = Date(today)]
    /\ IF marks_guid(data)
       THEN \E a \in Outcomes, b \in Outcomes :
            /\ SEARCHRESULTS' = searchresults(SEARCHRESULTS, data.guid, "Finished", a)
            /\ MARKEDRESULTS' = markedresults(MARKEDRESULTS, data.guid, "Finished", b)
            /\ result' = [status |-> "incomplete",
                          tasks |-> [result.tasks EXCEPT
                              !.guid = [present |-> TRUE, sr |-> B(a), mr |-> B(b)]]]
            /\ log' = log \o <<Call("manage", "searchresults", "guid"),
                               Call("manage", "markedresults", "guid")>>
       ELSE /\ result' = [result EXCEPT !.status = "incomplete"]
            /\ UNCHANGED <<SEARCHRESULTS, MARKEDRESULTS, log>>
    /\ pc' = "complete_guid2"
    /\ UNCHANGED <<cfg, req, outcome, error, MOVIES, fs, today, mapvars, funvars>>

CompleteGuid2 ==
    /\ pc = "complete_guid2"
    /\ IF data.guid2 \notin {UNSET, ""} /\ data.imdbid # NULL
       THEN \E a \in Outcomes, b \in Outcomes :
            /\ SEARCHRESULTS' = searchresults(SEARCHRESULTS, data.guid2, "Finished", a)
            /\ MARKEDRESULTS' = markedresults(MARKEDRESULTS, data.guid2, "Finished", b)
            /\ result' = [result EXCEPT
                              !.tasks.guid2 = [present |-> TRUE, sr |-> B(a), mr |-> B(b)]]
            /\ log' = log \o <<Call("manage", "searchresults", "guid2"),
                               Call("manage", "markedresults", "guid2")>>
       ELSE UNCHANGED <<SEARCHRESULTS, MARKEDRESULTS, result, log>>
    /\ pc' = "complete_status"
    /\ UNCHANGED <<cfg, req, data, outcome, error, MOVIES, fs, today,
                   mapvars, funvars>>

\* lines 385-402: insert a missing movie, recompute its status, persist the
\* finished date and score; then original_file is the located file
CompleteStatus ==
    /\ pc = "complete_status"
    /\ IF data.imdbid # NULL
       THEN LET exists == MOVIES[data.imdbid].present
                d1     == IF exists THEN data ELSE [data EXCEPT !.status = "Disabled"]
                m1     == IF exists THEN MOVIES
                          ELSE [MOVIES EXCEPT ![data.imdbid] = add_movie(d1)]
                r      == movie_status(data.imdbid, SEARCHRESULTS)
                m2     == set_movie_status(m1, data.imdbid, r)
            IN  /\ MOVIES' = [m2 EXCEPT
                                  ![data.imdbid].finished_date = data.finished_date,
                                  ![data.imdbid].finished_score = Get(data.finished_score)]
                /\ data' = [d1 EXCEPT !.original_file = data.movie_file]
                /\ result' = [result EXCEPT !.tasks.update_movie_status = r]
                /\ log' = log
                          \o <<Call("sql", "row_exists", "imdbid")>>
                          \o (IF exists THEN <<>>
                              ELSE <<Call("manage", "add_movie", "data")>>)
                          \o <<Call("manage", "movie_status", "imdbid"),
                               Call("sql", "update_multiple", "finished_date")>>
       ELSE /\ data' = [data EXCEPT !.original_file = data.movie_file]
            /\ result' = [result EXCEPT !.tasks.update_movie_status = ""]
            /\ UNCHANGED <<MOVIES, log>>
    /\ pc' = "complete_renamer"
    /\ UNCHANGED <<cfg, req, outcome, error, SEARCHRESULTS, MARKEDRESULTS, fs, today, mapvars, funvars>>

(***************************************************************************)
(* complete(data): Renamer, Mover, Cleanup                                 *)
(*                                                                         *)
(* fs.files holds the places where the movie file exists: "orig" (where    *)
(* it was located), "renamed" (same directory, new name), "dest" (in the   *)
(* target folder); "symlink" is a link left at the original path.          *)
(* fs.given is what data['path'] named when the request arrived, fs.src    *)
(* what it names now.                                                      *)
(***************************************************************************)
\* valid_renamer_string taking every renamerstring
valid_renamer_string_any(s) == TRUE

\* line 544: re.match(r'{(.*?)}', renamer_string) is not None.  re.match
\* matches at the start of the string only: a '{', then as few characters as
\* will do, then a '}'.
valid_renamer_string(s) ==
    /\ Len(s) >= 2
    /\ s[1] = "{"
    /\ \E j \in 2..Len(s) : s[j] = "}"

\* renamer(data).  c.renamerstring is put to the re.match check; e.blank:
\* compile_path gives ''; e.ok: the filesystem lets os.rename through.
\* exc: an exception leaves renamer (os.path.split(None)).
renamer(d, c, f, e) ==
    IF ~valid_renamer_string(c.renamerstring) THEN [name |-> "", exc |-> FALSE, fs |-> f, calls |-> <<>>]
    ELSE IF d.movie_file = NULL
    THEN [name |-> "", exc |-> TRUE, fs |-> f, calls |-> <<>>]
    ELSE IF e.blank THEN [name |-> "", exc |-> FALSE, fs |-> f, calls |-> <<>>]
    ELSE IF d.movie_file \in f.files /\ e.ok
    THEN [name  |-> "new", exc |-> FALSE,
          fs    |-> [f EXCEPT !.files = (f.files \ {d.movie_file}) \cup {"renamed"},
                              !.src = IF f.src = "file" THEN "missing" ELSE f.src],
          calls |-> <<Call("fs", "rename", "movie_file")>>]
    ELSE [name |-> "", exc |-> FALSE, fs |-> f,
          calls |-> <<Call("fs", "rename", "movie_file")>>]

\* mover(data).  e.mkdir: the target folder exists or is created, or cannot
\* be created; e.old / e.dst: the recorded finished file / a file of the same name
\* in the target folder is not on disk, or is and gets removed (or recycled),
\* or is and cannot be removed; e.place / e.sym: the filesystem lets the link
\* or move, the symlink through.  ret is the new location, "" on failure.  calls lists what is done
\* to the movie file itself.
mover(d, c, f, e) ==
    LET fail(calls) == [ret |-> "", exc |-> FALSE, fs |-> f, calls |-> calls]
        c1  == <<>>
        old == Get(d.finished_file) # NULL /\ e.old # "absent"
        c2  == <<>>
        dst == d.movie_file # "" /\ e.dst # "absent"
        c3  == <<>>
    IN  IF e.mkdir = "failed" THEN fail(c1)
        ELSE IF d.movie_file = NULL
        THEN [ret |-> "", exc |-> TRUE, fs |-> f, calls |-> c1]
        ELSE IF old /\ e.old = "stuck" THEN fail(c2)
        ELSE IF dst /\ e.dst = "stuck" THEN fail(c3)
        ELSE IF c.movermethod = "hardlink"
        THEN IF d.original_file \in f.files /\ e.place
             THEN [ret |-> "dest", exc |-> FALSE,
                   fs |-> [f EXCEPT !.files = f.files \cup {"dest"}],
                   calls |-> c3 \o <<Call("fs", "link", "original_file")>>]
             ELSE fail(c3 \o <<Call("fs", "link", "original_file")>>)
        ELSE IF ~(d.movie_file \in f.files /\ e.place)
        THEN fail(c3 \o <<Call("fs", "move", "movie_file")>>)
        ELSE LET moved == [f EXCEPT
                              !.files = (f.files \ {d.movie_file}) \cup {"dest"},
                              !.src = IF f.src = "file" THEN "missing" ELSE f.src]
                 c4 == c3 \o <<Call("fs", "move", "movie_file")>>
             IN  IF c.movermethod # "symboliclink"
                 THEN [ret |-> "dest", exc |-> FALSE, fs |-> moved, calls |-> c4]
                 ELSE IF e.sym
                 THEN [ret |-> "dest", exc |-> FALSE,
                       fs |-> [moved EXCEPT
                                  !.files = moved.files \cup {"symlink"},
                                  !.src = IF f.given = "file" THEN "file"
                                          ELSE moved.src],
                       calls |-> c4 \o <<Call("fs", "symlink", "original_file")>>]
                 ELSE [ret |-> "", exc |-> FALSE, fs |-> moved,
                       calls |-> c4 \o <<Call("fs", "symlink", "original_file")>>]

RenamerEnv == [blank : BOOLEAN, ok : Outcomes]

\* with_new_name pointing data at the new name whatever renamer returned
with_new_name_always(d, name) == [d EXCEPT !.movie_file = "renamed"]

\* lines 408-413: data['movie_file'] after renamer returned name
with_new_name(d, name) ==
    IF name = "" THEN d ELSE [d EXCEPT !.movie_file = "renamed"]

MoverEnv ==
    [mkdir : {"ok", "failed"},
     old : {"absent", "removed", "stuck"}, dst : {"absent", "removed", "stuck"},
     place : Outcomes, sym : Outcomes]

Raise ==
    /\ outcome' = "exception"
    /\ pc' = "done"

CompleteRenamer ==
    /\ pc = "complete_renamer"
    /\ IF cfg.renamerenabled
       THEN \E e \in RenamerEnv :
            LET r == renamer(data, cfg, fs, e)
            IN  /\ fs' = r.fs
                /\ log' = log \o <<Call("self", "renamer", "data")>> \o r.calls
                /\ IF r.exc
                   THEN /\ Raise
                        /\ result' = [result EXCEPT !.tasks.renamer =
                                          [present |-> TRUE, enabled |-> "true",
                                           response |-> UNSET]]
                        /\ UNCHANGED data
                   ELSE /\ pc' = "complete_mover"
                        /\ data' = with_new_name(data, r.name)
                        /\ result' = [result EXCEPT !.tasks.renamer =
                                          [present |-> TRUE, enabled |-> "true",
                                           response |-> B(r.name # "")]]
                        /\ UNCHANGED outcome
       ELSE /\ result' = [result EXCEPT !.tasks.mover =
                              [present |-> TRUE, enabled |-> "false",
                               response |-> UNSET]]
            /\ pc' = "complete_mover"
            /\ UNCHANGED <<data, fs, log, outcome>>
    /\ UNCHANGED <<cfg, req, error, MOVIES, SEARCHRESULTS, MARKEDRESULTS, today, mapvars, funvars>>

CompleteMover ==
    /\ pc = "complete_mover"
    /\ IF cfg.moverenabled
       THEN \E e \in MoverEnv :
            LET m == mover(data, cfg, fs, e)
            IN  /\ fs' = m.fs
                /\ log' = log \o <<Call("self", "mover", "data")>> \o m.calls
                /\ IF m.exc
                   THEN /\ Raise
                        /\ result' = [result EXCEPT !.tasks.mover =
                                          [present |-> TRUE, enabled |-> "true",
                                           response |-> UNSET]]
                        /\ UNCHANGED data
                   ELSE /\ pc' = "complete_persist"
                        /\ data' = IF m.ret = "" THEN data
                                   ELSE [data EXCEPT !.finished_file = m.ret]
                        /\ result' = [result EXCEPT !.tasks.mover =
                                          [present |-> TRUE, enabled |-> "true",
                                           response |-> B(m.ret # "")]]
                        /\ UNCHANGED outcome
       ELSE /\ result' = [result EXCEPT !.tasks.mover =
                              [present |-> TRUE, enabled |-> "false",
                               response |-> UNSET]]
            /\ pc' = "complete_persist"
            /\ UNCHANGED <<data, fs, log, outcome>>
    /\ UNCHANGED <<cfg, req, error, MOVIES, SEARCHRESULTS, MARKEDRESULTS, today, mapvars, funvars>>

\* line 431-432: core.sql.update('MOVIES', 'finished_file', ...)
CompletePersist ==
    /\ pc = "complete_persist"
    /\ IF data.imdbid # NULL
       THEN /\ MOVIES' = [MOVIES EXCEPT
                              ![data.imdbid].finished_file = Get(data.finished_file)]
            /\ log' = log \o <<Call("sql", "update", "finished_file")>>
       ELSE UNCHANGED <<MOVIES, log>>
    /\ pc' = "complete_cleanup"
    /\ UNCHANGED <<cfg, req, data, result, outcome, error, SEARCHRESULTS,
                   MARKEDRESULTS, fs, today, mapvars, funvars>>

\* cleanup_skipped looking at a failed mover only
cleanup_skipped_failed_only(c, moverresponse) == moverresponse = "false"

\* line 449: Cleanup is not run when the mover is disabled or has failed
cleanup_skipped(c, moverresponse) ==
    c.moverenabled = FALSE \/ moverresponse = "false"

\* lines 435-463
CompleteCleanup ==
    /\ pc = "complete_cleanup"
    /\ IF ~cfg.cleanupenabled
       THEN /\ result' = [status |-> "finished",
                          tasks |-> [result.tasks EXCEPT !.cleanup =
                              [present |-> TRUE, enabled |-> "false",
                               response |-> UNSET]]]
            /\ UNCHANGED <<fs, log>>
       ELSE IF cfg.movermethod \in {"hardlink", "symboliclink"} \/ fs.src = "file"
       THEN /\ result' = [result EXCEPT !.tasks.cleanup =
                              [present |-> TRUE, enabled |-> "true",
                               response |-> NULL]]
            /\ UNCHANGED <<fs, log>>
       ELSE IF cleanup_skipped(cfg, result.tasks.mover.response)
       THEN /\ result' = [status |-> "finished",
                          tasks |-> [result.tasks EXCEPT !.cleanup =
                              [present |-> TRUE, enabled |-> "true",
                               response |-> NULL]]]
            /\ UNCHANGED <<fs, log>>
       ELSE \E ok \in Outcomes :
            LET c == cleanup(fs, ok)
            IN  /\ fs' = c.fs
                /\ log' = log \o <<Call("self", "cleanup", "path")>> \o c.calls
                /\ result' = [status |-> "finished",
                              tasks |-> [result.tasks EXCEPT !.cleanup =
                                  [present |-> TRUE, enabled |-> "true",
                                   response |-> B(c.ret)]]]
    /\ pc' = "return"
    /\ UNCHANGED <<cfg, req, data, outcome, error, MOVIES, SEARCHRESULTS,
                   MARKEDRESULTS, today, mapvars, funvars>>

\* lines 77-113: the report goes back to the downloader, after the
\* notification hook for a completed download
Return ==
    /\ pc = "return"
    /\ log' = IF req.mode = "complete"
              THEN log \o <<Call("plugins", "finished", "data")>>
              ELSE log
    /\ outcome' = "report"
    /\ pc' = "done"
    /\ UNCHANGED <<cfg, req, data, result, error, MOVIES, SEARCHRESULTS,
                   MARKEDRESULTS, fs, today, mapvars, funvars>>

(***************************************************************************)
(* map_remote on its own                                                   *)
(***************************************************************************)
Prefixes == StringsUpTo(MaxPrefixLen) \ {<<>>}

Locals == StringsUpTo(1)

\* RemoteMapping: an ordered dict, so no remote prefix occurs twice
Mappings ==
    {m \in UNION {[1..k -> Prefixes \X Locals] : k \in 0..MaxMaps} :
        \A i, j \in 1..Len(m) : i # j => m[i][1] # m[j][1]}

MapRemote ==
    /\ ~mout.done
    /\ mout' = [done |-> TRUE, path |-> map_remote(mpath, mmaps)]
    /\ UNCHANGED <<pipevars, mpath, mmaps, funvars>>

(***************************************************************************)
(* get_movie_file(path) as a function of what is at path                   *)
(***************************************************************************)
\* sequences of at most n file sizes, in os.walk order
SizeLists(n) == UNION {[1..k -> 0..MaxFileSize] : k \in 0..n}

Locate ==
    /\ ~loc.done
    /\ loc' = [loc EXCEPT
                  !.done = TRUE,
                  !.ret = get_movie_file(loc),
                  !.index = IF loc.src = "dir" THEN biggestfile(loc.sizes, 1, 0, 0)
                            ELSE 0]
    /\ UNCHANGED <<pipevars, mapvars, tpl, san, mv, par, cmp, sc>>

(***************************************************************************)
(* The renamer's check of config['renamerstring'] as a function            *)
(***************************************************************************)
TemplateChars == {"{", "}", "t"}

Templates == UNION {[1..k -> TemplateChars] : k \in 0..MaxTemplateLen}

CheckTemplate ==
    /\ ~tpl.done
    /\ tpl' = [tpl EXCEPT !.done = TRUE, !.valid = valid_renamer_string(tpl.string)]
    /\ UNCHANGED <<pipevars, mapvars, loc, san, mv, par, cmp, sc>>

(***************************************************************************)
(* sanitize(string)                                                        *)
(***************************************************************************)
\* the characters of the class ["*?<>|]
Illegal == {"\"", "*", "?", "<", ">", "|"}

\* re_sub replacing every illegal character by itself, without the '+'
RECURSIVE re_sub_each(_, _)
re_sub_each(s, repl) ==
    IF s = <<>> THEN <<>>
    ELSE IF Head(s) \in Illegal THEN repl \o re_sub_each(Tail(s), repl)
    ELSE <<Head(s)>> \o re_sub_each(Tail(s), repl)

\* what is left of s after the illegal characters it starts with
RECURSIVE skip_illegal(_)
skip_illegal(s) ==
    IF s # <<>> /\ Head(s) \in Illegal THEN skip_illegal(Tail(s)) ELSE s

\* line 804: re.sub(r'["*?<>|]+', repl, string)
RECURSIVE re_sub(_, _)
re_sub(s, repl) ==
    IF s = <<>> THEN <<>>
    ELSE IF Head(s) \in Illegal THEN repl \o re_sub(skip_illegal(s), repl)
    ELSE <<Head(s)>> \o re_sub(Tail(s), repl)

\* os.path.splitdrive: posixpath has no drive; ntpath takes the two
\* characters of a drive specification 'x:' (paths have no separator here, so
\* no UNC prefix)
splitdrive(s, platform) ==
    IF platform = "windows" /\ Len(s) >= 2 /\ s[2] = ":"
    THEN [drive |-> SubSeq(s, 1, 2), path |-> Drop(s, 2)]
    ELSE [drive |-> <<>>, path |-> s]

\* lines 801-808
sanitize(string, repl, platform) ==
    LET parts == splitdrive(re_sub(string, repl), platform)
    IN  parts.drive \o replace(parts.path, <<":">>, repl)

\* 'Movie: Part*Two'
MoviePartTwo ==
    <<"M", "o", "v", "i", "e", ":", " ", "P", "a", "r", "t", "*", "T", "w", "o">>

SanitizeChars == {"a", ":", "*", "?"}

SanitizeStrings == UNION {[1..k -> SanitizeChars] : k \in 0..MaxStringLen}

Sanitize ==
    /\ ~san.done
    /\ san' = [san EXCEPT !.done = TRUE,
                          !.ret = sanitize(san.string, san.repl, san.platform)]
    /\ UNCHANGED <<pipevars, mapvars, loc, tpl, mv, par, cmp, sc>>

(***************************************************************************)
(* compile_path(string, data)                                              *)
(***************************************************************************)
\* sub in s
contains(s, sub) ==
    \E i \in 1..(Len(s) - Len(sub) + 1) : SubSeq(s, i, i + Len(sub) - 1) = sub

\* lines 513-516: every '{key}' is replaced by its value, None by ''
RECURSIVE substitute(_, _, _)
substitute(s, keys, d) ==
    IF keys = <<>> THEN s
    ELSE LET k == <<"{">> \o keys[1] \o <<"}">>
             v == IF d[keys[1]] = NULL THEN <<>> ELSE d[keys[1]]
         IN  substitute(IF contains(s, k) THEN replace(s, k, v) ELSE s,
                        Tail(keys), d)

\* lines 518-519
RECURSIVE collapse_spaces(_)
collapse_spaces(s) ==
    IF contains(s, <<" ", " ">>)
    THEN collapse_spaces(replace(s, <<" ", " ">>, <<" ">>))
    ELSE s

\* lines 521-522
RECURSIVE trim_spaces(_)
trim_spaces(s) ==
    IF Len(s) > 1 /\ s[Len(s)] = " " THEN trim_spaces(SubSeq(s, 1, Len(s) - 1))
    ELSE s

\* keys: the keys of data in the order of data.items()
compile_path(string, keys, d, c) ==
    sanitize(map_remote(trim_spaces(collapse_spaces(substitute(string, keys, d))),
                        c.RemoteMapping),
             c.replaceillegal, c.platform)

\* the pieces templates are made of
CompileTokens == {<<"{", "a", "}">>, <<"{", "b", "}">>, <<" ">>, <<"*">>, <<"x">>}

RECURSIVE concat(_)
concat(seqs) == IF seqs = <<>> THEN <<>> ELSE Head(seqs) \o concat(Tail(seqs))

CompileTemplates ==
    {concat(t) : t \in UNION {[1..k -> CompileTokens] : k \in 0..MaxCompileTokens}}

CompileKeys == <<<<"a">>, <<"b">>>>

\* values of data: None, '', 'X', 'X:' and '*'
CompileValues == {NULL, <<>>, <<"X">>, <<"X", ":">>, <<"*">>}

CompileConfigs ==
    [replaceillegal : {<<>>, <<" ">>, <<"_">>},
     RemoteMapping : {<<>>, <<<<<<"x">>, <<"y">>>>>>},
     platform : {"posix", "windows"}]

\* '{a} {b}'
TemplateAB == <<"{", "a", "}", " ", "{", "b", "}">>

Compile ==
    /\ ~cmp.done
    /\ cmp' = [cmp EXCEPT !.done = TRUE,
                          !.ret = compile_path(cmp.string, CompileKeys, cmp.data, cmp.cfg)]
    /\ UNCHANGED <<pipevars, mapvars, loc, tpl, san, mv, par, sc>>

(***************************************************************************)
(* mover(data), step by step, on a filesystem of its own.  mv.n counts the *)
(* calls; every call moves a new file (version mv.n) that has the same     *)
(* name into the same target folder.                                       *)
(*   target   version of the file of that name in the target folder, 0: no *)
(*   bin      versions of the files of that name in the recycle bin        *)
(*   extra    a file that shares the stem of the file in the target folder *)
(*   source   the file to move is at data['movie_file']                    *)
(*   known    data['finished_file'] names the file in the target folder    *)
(*   failed   the step whose filesystem call failed in this call           *)
(*   displaced  the version that went to the recycle bin last              *)
(*   alias    "none": the file to move lies elsewhere than the files mover *)
(*            displaces; "old": data['finished_file'] is the file to move; *)
(*            "dst": the target folder is the folder the file lies in      *)
(***************************************************************************)
MoverConfigs ==
    [recyclebinenabled : BOOLEAN, movermethod : MoverMethods,
     removeadditionalfiles : BOOLEAN, moveextensions : BOOLEAN]

\* recycle leaving what the bin holds where it is
recycle_keeps(m, e) ==
    IF ~m.bindir /\ ~e.mk THEN [ok |-> FALSE, m |-> m]
    ELSE LET m1 == [m EXCEPT !.bindir = TRUE]
         IN  IF ~e.mv THEN [ok |-> FALSE, m |-> m1]
             ELSE [ok |-> TRUE,
                   m  |-> [m1 EXCEPT !.bin = m1.bin \cup {m.target},
                                     !.target = 0, !.displaced = m.target]]

\* recycle(recycle_bin, abs_filepath) for the file in the target folder.
\* e.mk, e.rm, e.mv: os.makedirs, os.remove, shutil.move go through.
recycle(m, e) ==
    IF ~m.bindir /\ ~e.mk THEN [ok |-> FALSE, m |-> m]
    ELSE LET m1 == [m EXCEPT !.bindir = TRUE]
         IN  IF m1.bin # {} /\ ~e.rm THEN [ok |-> FALSE, m |-> m1]
             ELSE LET m2 == [m1 EXCEPT !.bin = {}]
                  IN  IF ~e.mv THEN [ok |-> FALSE, m |-> m2]
                      ELSE [ok |-> TRUE,
                            m  |-> [m2 EXCEPT !.bin = {m.target}, !.target = 0,
                                              !.displaced = m.target]]

RecycleEnv == [mk : Outcomes, rm : Outcomes, mv : Outcomes]

\* remove_additional_files(movie_file): its result is not looked at
remove_additional_files(m, ok) == IF ok THEN [m EXCEPT !.extra = FALSE] ELSE m

\* mover_fails going on with the next step after a symlink failure
mover_fails_unless_symlink(m, step) ==
    IF step = "symlink" THEN [m EXCEPT !.failed = step, !.pc = "sidecars"]
    ELSE [m EXCEPT !.failed = step, !.ret = "", !.pc = "returned"]

\* return '' after the failure of a step
mover_fails(m, step) == [m EXCEPT !.failed = step, !.ret = "", !.pc = "returned"]

\* lines 672-688 and 690-704: the file in the target folder is recycled or
\* removed, then the files that share its stem
displace(m, step, next, e, rmok, addok) ==
    LET after(x) == IF m.cfg.removeadditionalfiles
                    THEN remove_additional_files(x, addok) ELSE x
        \* the displaced file is the file to move: it has left its place
        gone(x) == [x EXCEPT !.source = m.source /\ ~(m.alias # "none" /\ m.target = m.n)]
    IN  IF m.cfg.recyclebinenabled
        THEN LET r == recycle(m, e)
             IN  IF r.ok THEN [after(gone(r.m)) EXCEPT !.pc = next]
                 ELSE mover_fails(r.m, step)
        ELSE IF rmok THEN [after(gone([m EXCEPT !.target = 0])) EXCEPT !.pc = next]
             ELSE mover_fails(m, step)

MoverCall ==
    /\ mv.pc \in {"idle", "returned"}
    /\ mv.n < (IF mv.alias = "none" THEN MaxMoves ELSE 1)
    /\ \E known \in BOOLEAN, extra \in BOOLEAN :
          mv' = [mv EXCEPT !.pc = "mkdir", !.n = mv.n + 1,
                           !.known = IF mv.alias = "old" THEN TRUE ELSE known,
                           !.target = IF mv.alias = "none" THEN mv.target
                                      ELSE mv.n + 1,
                           !.extra = ((mv.target # 0 \/ mv.alias # "none")
                                      /\ (mv.extra \/ extra)),
                           !.source = TRUE, !.link = FALSE, !.copied = FALSE,
                           !.failed = "none", !.ret = UNSET]
    /\ UNCHANGED <<pipevars, mapvars, loc, tpl, san, par, cmp, sc>>

\* lines 661-667
MoverMkdir ==
    /\ mv.pc = "mkdir"
    /\ \E ok \in Outcomes :
          mv' = IF mv.tdir THEN [mv EXCEPT !.pc = "old"]
                ELSE IF ok THEN [mv EXCEPT !.tdir = TRUE, !.pc = "old"]
                ELSE mover_fails(mv, "mkdir")
    /\ UNCHANGED <<pipevars, mapvars, loc, tpl, san, par, cmp, sc>>

\* lines 672-688
MoverOld ==
    /\ mv.pc = "old"
    /\ \E e \in RecycleEnv, rmok \in Outcomes, addok \in Outcomes :
          mv' = IF mv.known /\ mv.target # 0
                THEN displace(mv, "old", "dst", e, rmok, addok)
                ELSE [mv EXCEPT !.pc = "dst"]
    /\ UNCHANGED <<pipevars, mapvars, loc, tpl, san, par, cmp, sc>>

\* lines 690-704
MoverDst ==
    /\ mv.pc = "dst"
    /\ \E e \in RecycleEnv, rmok \in Outcomes, addok \in Outcomes :
          mv' = IF mv.target # 0
                THEN displace(mv, "dst", "place", e, rmok, addok)
                ELSE [mv EXCEPT !.pc = "place"]
    /\ UNCHANGED <<pipevars, mapvars, loc, tpl, san, par, cmp, sc>>

\* lines 707-724: os.link or shutil.move
MoverPlace ==
    /\ mv.pc = "place"
    /\ \E ok \in Outcomes :
          mv' = IF ~ok \/ ~mv.source THEN mover_fails(mv, "place")
                ELSE IF mv.cfg.movermethod = "hardlink"
                THEN [mv EXCEPT !.target = mv.n, !.pc = "sidecars"]
                ELSE [mv EXCEPT !.target = mv.n, !.source = FALSE,
                                !.pc = IF mv.cfg.movermethod = "symboliclink"
                                       THEN "symlink" ELSE "sidecars"]
    /\ UNCHANGED <<pipevars, mapvars, loc, tpl, san, par, cmp, sc>>

\* lines 726-734
MoverSymlink ==
    /\ mv.pc = "symlink"
    /\ \E ok \in Outcomes :
          mv' = IF ok THEN [mv EXCEPT !.link = TRUE, !.pc = "sidecars"]
                ELSE mover_fails(mv, "symlink")
    /\ UNCHANGED <<pipevars, mapvars, loc, tpl, san, par, cmp, sc>>

\* lines 736-761: a file of data['path'] with one of the extensions to keep
\* is copied next to the movie; a failed copy is logged
MoverSidecars ==
    /\ mv.pc = "sidecars"
    /\ \E ok \in Outcomes :
          mv' = IF ~mv.cfg.moveextensions
                THEN [mv EXCEPT !.ret = "dest", !.pc = "returned"]
                ELSE [mv EXCEPT !.copied = ok,
                                !.failed = IF ok \/ mv.failed # "none" THEN mv.failed
                                           ELSE "sidecar",
                                !.ret = "dest", !.pc = "returned"]
    /\ UNCHANGED <<pipevars, mapvars, loc, tpl, san, par, cmp, sc>>

NextMover ==
    \/ MoverCall
    \/ MoverMkdir
    \/ MoverOld
    \/ MoverDst
    \/ MoverPlace
    \/ MoverSymlink
    \/ MoverSidecars

(***************************************************************************)
(* mover(data), lines 736-761: the loop that copies the files to keep.     *)
(* A file of the target folder is <<stem, n, ext, from>>: its name is      *)
(* stem.ext for n = 0 and stem(n).ext otherwise, from tells whose content  *)
(* it holds: 0 for a file that was there before the loop, the movie file   *)
(* just placed included, i for the i-th file of os.walk(data['path']).     *)
(***************************************************************************)
Exts == {"srt", "nfo", "mkv"}

\* the compiled renamerstring and the name the download came with
CompiledNames == {<<"T">>, <<"T", " ", "1">>}

OriginalNames == {<<"o">>, <<"T">>}

\* renamed: the Renamer ran and os.rename went through
SidecarConfigs ==
    {c \in [renamerenabled : BOOLEAN, renamed : BOOLEAN, replacespaces : BOOLEAN,
            moveextensions : SUBSET Exts] : c.renamed => c.renamerenabled}

\* lines 562-564, 708: the stem of the movie file in the target folder
movie_stem(c, compiled, original) ==
    IF c.renamed
    THEN IF c.replacespaces THEN replace(compiled, <<" ">>, <<".">>) ELSE compiled
    ELSE original

\* os.path.isfile(target_file)
isfile(target, stem, n, ext) ==
    \E f \in target : f[1] = stem /\ f[2] = n /\ f[3] = ext

\* first_free taking the plain name whether or not it is there
first_free_plain(target, stem, ext, n) == 0

\* lines 751-755: the first of stem.ext, stem(1).ext, ... that is no file
RECURSIVE first_free(_, _, _, _)
first_free(target, stem, ext, n) ==
    IF isfile(target, stem, n, ext) THEN first_free(target, stem, ext, n + 1)
    ELSE n

\* shutil.copyfile(old_abs_path, target_file): the file is created or replaced
copyfile(target, stem, n, ext, from) ==
    {f \in target : ~(f[1] = stem /\ f[2] = n /\ f[3] = ext)}
        \cup {<<stem, n, ext, from>>}

\* one file of os.walk(data['path']); ok: shutil.copyfile goes through
SidecarFile ==
    /\ sc.pc = "loop"
    /\ sc.cfg.moveextensions # {}
    /\ sc.i <= Len(sc.files)
    /\ \E ok \in Outcomes :
          LET ext == sc.files[sc.i]
              n   == first_free(sc.target, sc.compiled, ext, 0)
          IN  sc' = IF ext \in sc.cfg.moveextensions /\ ok
                    THEN [sc EXCEPT !.target = copyfile(sc.target, sc.compiled, n, ext, sc.i),
                                    !.i = sc.i + 1]
                    ELSE [sc EXCEPT !.i = sc.i + 1]
    /\ UNCHANGED <<pipevars, mapvars, loc, tpl, san, mv, par, cmp>>

\* line 761
SidecarsReturn ==
    /\ sc.pc = "loop"
    /\ sc.cfg.moveextensions = {} \/ sc.i > Len(sc.files)
    /\ sc' = [sc EXCEPT !.pc = "returned"]
    /\ UNCHANGED <<pipevars, mapvars, loc, tpl, san, mv, par, cmp>>

NextSidecars ==
    \/ SidecarFile
    \/ SidecarsReturn

(***************************************************************************)
(* Two complete requests in one process, interleaved call by call.  Each   *)
(* request has its own guid, source file and target file; the record store *)
(* (movies, results), the filesystem (files, bindir, bin) and the patched  *)
(* shutil.copystat are shared.  Every call goes through unless the state   *)
(* it finds makes it raise, so a run of one request after the other has    *)
(* one result.  par.proc[p].pc is the call request p makes next.           *)
(***************************************************************************)
Procs == {1, 2}

ParMovies == {"m1", "m2"}

ParGuid(p) == IF p = 1 THEN "g1" ELSE "g2"

ParSource(p) == IF p = 1 THEN "src1" ELSE "src2"

ParTarget(p) == IF p = 1 THEN "dst1" ELSE "dst2"

ParOld(i) == IF i = "m1" THEN "old1" ELSE "old2"

\* same: both guids are releases of one movie; old[i]: the row of movie i has
\* a finished_file that is on disk; bindir: the recycle bin directory exists
ParConfigs ==
    [recyclebinenabled : BOOLEAN, bindir : BOOLEAN, same : BOOLEAN,
     old : [ParMovies -> BOOLEAN]]

\* imdbid of the search result of request p's guid
ParImdbid(c, p) == IF c.same \/ p = 1 THEN "m1" ELSE "m2"

ParInit(c) ==
    [pc       |-> "on",
     cfg      |-> c,
     proc     |-> [p \in Procs |-> [pc |-> "info", finished_file |-> NULL,
                                    moved |-> FALSE]],
     movies   |-> [i \in ParMovies |->
                      [status |-> "Snatched",
                       finished_file |-> IF c.old[i] THEN ParOld(i) ELSE NULL]],
     results  |-> [p \in Procs |-> "Snatched"],
     files    |-> {ParSource(p) : p \in Procs} \cup {ParOld(i) : i \in {j \in ParMovies : c.old[j]}},
     bindir   |-> c.bindir,
     bin      |-> {},
     copystat |-> "copystat"]

\* mover returns ''
ParMoverFails(s, p) == [s EXCEPT !.proc[p].moved = FALSE, !.proc[p].pc = "update"]

\* the next call of request p in state s
ParStep(s, p) ==
    LET me  == s.proc[p]
        i   == ParImdbid(s.cfg, p)
        old == me.finished_file
    IN  CASE me.pc = "info" ->        \* lines 173, 193-196
               [s EXCEPT !.proc[p].finished_file = s.movies[i].finished_file,
                         !.proc[p].pc = "status"]
          [] me.pc = "status" ->      \* lines 343-385
               [s EXCEPT !.results[p] = "Finished",
                         !.movies[i].status = "Finished",
                         !.proc[p].pc = "old"]
          [] me.pc = "old" ->         \* lines 672-677
               [s EXCEPT !.proc[p].pc =
                   IF old # NULL /\ old \in s.files
                   THEN IF s.cfg.recyclebinenabled THEN "bin_check" ELSE "old_remove"
                   ELSE "place"]
          [] me.pc = "old_remove" ->  \* lines 683-687
               IF old \in s.files
               THEN [s EXCEPT !.files = s.files \ {old}, !.proc[p].pc = "place"]
               ELSE ParMoverFails(s, p)
          [] me.pc = "bin_check" ->   \* line 594
               [s EXCEPT !.proc[p].pc = IF s.bindir THEN "bin_move" ELSE "bin_make"]
          [] me.pc = "bin_make" ->    \* lines 596-600
               IF s.bindir THEN ParMoverFails(s, p)
               ELSE [s EXCEPT !.bindir = TRUE, !.proc[p].pc = "bin_move"]
          [] me.pc = "bin_move" ->    \* lines 602-610
               IF old \in s.files
               THEN [s EXCEPT !.copystat = "null", !.files = s.files \ {old},
                              !.bin = s.bin \cup {old}, !.proc[p].pc = "place"]
               ELSE ParMoverFails([s EXCEPT !.copystat = "null",
                                            !.bin = s.bin \ {old}], p)
          [] me.pc = "place" ->       \* lines 708, 717-724, 419-420
               [s EXCEPT !.copystat = "null",
                         !.files = (s.files \ {ParSource(p)}) \cup {ParTarget(p)},
                         !.proc[p].finished_file = ParTarget(p),
                         !.proc[p].moved = TRUE,
                         !.proc[p].pc = "update"]
          [] me.pc = "update" ->      \* lines 423-424, 450-451
               [s EXCEPT !.movies[i].finished_file = me.finished_file,
                         !.proc[p].pc = "done"]
          [] OTHER -> s

RECURSIVE ParRun(_, _)
\* request p run to its end with no other request in between
ParRun(s, p) == IF s.proc[p].pc = "done" THEN s ELSE ParRun(ParStep(s, p), p)

\* the report of each request, the record store and the filesystem
ParOutcome(s) ==
    [report  |-> [p \in Procs |-> s.proc[p].moved],
     movies  |-> s.movies,
     results |-> s.results,
     files   |-> s.files,
     bindir  |-> s.bindir,
     bin     |-> s.bin]

ParSerial(c) ==
    {ParOutcome(ParRun(ParRun(ParInit(c), 1), 2)),
     ParOutcome(ParRun(ParRun(ParInit(c), 2), 1))}

ParCall(p) ==
    /\ par.pc = "on"
    /\ par.proc[p].pc # "done"
    /\ par' = ParStep(par, p)
    /\ UNCHANGED <<pipevars, mapvars, loc, tpl, san, mv, cmp, sc>>

NextPar == \E p \in Procs : ParCall(p)

(***************************************************************************)
(* Specifications                                                          *)
(***************************************************************************)
InitPipe ==
    /\ pc = "idle"
    /\ cfg = DefaultConfig
    /\ req = [keys |-> {}, apikey |-> "", mode |-> ""]
    /\ data = NoData
    /\ result = NoResult
    /\ outcome = "none"
    /\ error = ""
    /\ log = <<>>
    /\ SEARCHRESULTS = [g \in {"g1"} |-> "Snatched"]
    /\ MARKEDRESULTS = [g \in {"g1", "g2"} |-> NULL]
    /\ fs = NoFs
    /\ today = 1

InitNoMap ==
    /\ mpath = <<>>
    /\ mmaps = <<>>
    /\ mout = [done |-> TRUE, path |-> <<>>]

\* the function specifications' variables when they are not in use
InitNoLocate == loc = [done |-> TRUE]

InitNoTemplate == tpl = [done |-> TRUE]

InitNoSanitize == san = [done |-> TRUE]

InitNoMover == mv = [pc |-> "off"]

InitNoPar == par = [pc |-> "off"]

InitNoCompile == cmp = [done |-> TRUE]

InitNoSidecars == sc = [pc |-> "off"]

Init ==
    /\ InitPipe
    /\ InitNoMap
    /\ InitNoLocate /\ InitNoTemplate /\ InitNoSanitize /\ InitNoMover /\ InitNoPar
    /\ InitNoCompile /\ InitNoSidecars
    /\ MOVIES \in [Imdbids -> StoredRows]

InitMap ==
    /\ InitPipe
    /\ MOVIES = [i \in Imdbids |-> NoRow]
    /\ mpath \in StringsUpTo(MaxPathLen)
    /\ mmaps \in Mappings
    /\ mout = [done |-> FALSE, path |-> <<>>]
    /\ InitNoLocate /\ InitNoTemplate /\ InitNoSanitize /\ InitNoMover /\ InitNoPar
    /\ InitNoCompile /\ InitNoSidecars

InitLocate ==
    /\ InitPipe
    /\ MOVIES = [i \in Imdbids |-> NoRow]
    /\ InitNoMap /\ InitNoTemplate /\ InitNoSanitize /\ InitNoMover /\ InitNoPar
    /\ InitNoCompile /\ InitNoSidecars
    /\ loc \in [src : {"dir"}, sizes : SizeLists(MaxFiles), done : {FALSE},
                ret : {UNSET}, index : {0}]
               \cup [src : {"file", "missing"}, sizes : {<<>>}, done : {FALSE},
                     ret : {UNSET}, index : {0}]

InitTemplate ==
    /\ InitPipe
    /\ MOVIES = [i \in Imdbids |-> NoRow]
    /\ InitNoMap /\ InitNoLocate /\ InitNoSanitize /\ InitNoMover /\ InitNoPar
    /\ InitNoCompile /\ InitNoSidecars
    /\ tpl \in [string : Templates, done : {FALSE}, valid : {FALSE}]

InitSanitize ==
    /\ InitPipe
    /\ MOVIES = [i \in Imdbids |-> NoRow]
    /\ InitNoMap /\ InitNoLocate /\ InitNoTemplate /\ InitNoMover /\ InitNoPar
    /\ InitNoCompile /\ InitNoSidecars
    /\ san \in [string : SanitizeStrings \cup {MoviePartTwo}, repl : {<<>>, <<"_">>},
                platform : {"posix", "windows"}, done : {FALSE}, ret : {<<>>}]

InitMover ==
    /\ InitPipe
    /\ MOVIES = [i \in Imdbids |-> NoRow]
    /\ InitNoMap /\ InitNoLocate /\ InitNoTemplate /\ InitNoSanitize /\ InitNoPar
    /\ InitNoCompile /\ InitNoSidecars
    /\ mv \in [pc : {"idle"}, cfg : MoverConfigs, n : {0}, known : {FALSE},
               tdir : BOOLEAN, bindir : {FALSE}, target : {0}, bin : {{}},
               extra : {FALSE}, source : {FALSE}, link : {FALSE}, copied : {FALSE},
               failed : {"none"}, ret : {UNSET}, displaced : {0}, alias : {"none"}]

\* one call of mover, also for a file that is its own previous finished file
\* or already lies in the target folder (which then exists)
InitKeep ==
    /\ InitPipe
    /\ MOVIES = [i \in Imdbids |-> NoRow]
    /\ InitNoMap /\ InitNoLocate /\ InitNoTemplate /\ InitNoSanitize /\ InitNoPar
    /\ InitNoCompile /\ InitNoSidecars
    /\ mv \in {m \in [pc : {"idle"}, cfg : MoverConfigs, n : {0}, known : {FALSE},
                       tdir : BOOLEAN, bindir : BOOLEAN, target : {0}, bin : {{}},
                       extra : {FALSE}, source : {FALSE}, link : {FALSE},
                       copied : {FALSE}, failed : {"none"}, ret : {UNSET},
                       displaced : {0}, alias : {"none", "old", "dst"}] :
                   m.alias = "dst" => m.tdir}

InitPar ==
    /\ InitPipe
    /\ MOVIES = [i \in Imdbids |-> NoRow]
    /\ InitNoMap /\ InitNoLocate /\ InitNoTemplate /\ InitNoSanitize /\ InitNoMover
    /\ InitNoCompile /\ InitNoSidecars
    /\ par \in {ParInit(c) : c \in ParConfigs}

InitCompile ==
    /\ InitPipe
    /\ MOVIES = [i \in Imdbids |-> NoRow]
    /\ InitNoMap /\ InitNoLocate /\ InitNoTemplate /\ InitNoSanitize /\ InitNoMover
    /\ InitNoPar /\ InitNoSidecars
    /\ cmp \in [string : CompileTemplates,
                data : [{<<"a">>, <<"b">>} -> CompileValues],
                cfg : CompileConfigs, done : {FALSE}, ret : {<<>>}]

\* the target folder holds the movie file and any of the files compiled.srt
\* and compiled(1).srt from earlier
InitSidecars ==
    /\ InitPipe
    /\ MOVIES = [i \in Imdbids |-> NoRow]
    /\ InitNoMap /\ InitNoLocate /\ InitNoTemplate /\ InitNoSanitize /\ InitNoMover
    /\ InitNoPar /\ InitNoCompile
    /\ \E c \in SidecarConfigs, compiled \in CompiledNames, original \in OriginalNames,
          files \in UNION {[1..k -> Exts] : k \in 0..MaxSidecars},
          before \in SUBSET {0, 1} :
          sc = [pc |-> "loop", cfg |-> c, compiled |-> compiled,
                movie |-> movie_stem(c, compiled, original),
                files |-> files, i |-> 1,
                target |-> {<<movie_stem(c, compiled, original), 0, "mkv", 0>>}
                           \cup {<<compiled, n, "srt", 0>> : n \in before}]

Next ==
    \/ POST
    \/ FailedGuid
    \/ FailedGuid2
    \/ FailedStatus
    \/ FailedCleanup
    \/ FailedAutograb
    \/ CompleteGuid
    \/ CompleteGuid2
    \/ CompleteStatus
    \/ CompleteRenamer
    \/ CompleteMover
    \/ CompletePersist
    \/ CompleteCleanup
    \/ Return

Spec == Init /\ [][Next]_vars

SpecMap == InitMap /\ [][MapRemote]_vars

SpecLocate == InitLocate /\ [][Locate]_vars

SpecTemplate == InitTemplate /\ [][CheckTemplate]_vars

SpecSanitize == InitSanitize /\ [][Sanitize]_vars

SpecMover == InitMover /\ [][NextMover]_vars

SpecKeep == InitKeep /\ [][NextMover]_vars

SpecCompile == InitCompile /\ [][Compile]_vars

SpecSidecars == InitSidecars /\ [][NextSidecars]_vars

SpecPar == InitPar /\ [][NextPar]_vars

(***************************************************************************)
(* Properties                                                              *)
(***************************************************************************)
\* the request passes validation, as the interface states it
RequestValid(r) ==
    /\ r.keys = RequiredKeys
    /\ r.apikey = DefaultConfig.apikey
    /\ r.mode \in {"complete", "failed"}

Reported(mode) == pc = "done" /\ outcome = "report" /\ req.mode = mode

Attempted(task) == task.present /\ task.response \in {"true", "false"}

LinkMethod == cfg.movermethod \in {"hardlink", "symboliclink"}

\* C1: once a request has passed validation, POST ends with a report: no
\* error escapes a step and terminates the request.
C1_ValidatedRequestIsReported ==
    (pc = "done" /\ RequestValid(req)) => outcome = "report"

\* C2: in the complete branch Cleanup is attempted on the source path only if
\* cleanup is enabled, the move method is not a link, the source path is not a
\* single file and the Mover step did not fail.
C2_CleanupOnlyOnMovedDirectory ==
    (req.mode = "complete" /\ Called("self", "cleanup")) =>
        /\ cfg.cleanupenabled
        /\ ~LinkMethod
        /\ fs.given # "file"
        /\ result.tasks.mover.response # "false"

\* the case C3 is about: complete branch, cleanup enabled, no link method, the
\* source path a directory, the Mover disabled
C3_Case ==
    /\ Reported("complete")
    /\ cfg.cleanupenabled
    /\ ~LinkMethod
    /\ fs.given = "dir"
    /\ ~cfg.moverenabled

\* C3 as stated: in that case Cleanup is attempted on the source directory
\* (response true or false, not null).
C3_CleanupAttemptedWhenMoverDisabled ==
    C3_Case => Attempted(result.tasks.cleanup)

\* C3, amended: in that case Cleanup is skipped: the cleanup response is null,
\* cleanup is not called, the source directory stays, the status is finished.
C3_CleanupSkippedWhenMoverDisabled ==
    C3_Case =>
        /\ result.tasks.cleanup = [present |-> TRUE, enabled |-> "true",
                                   response |-> NULL]
        /\ ~Called("self", "cleanup")
        /\ fs.src = "dir"
        /\ result.status = "finished"

C3_Witness == C3_Case /\ cfg.renamerenabled /\ result.tasks.renamer.response = "true"

\* C4: every report of the complete branch has status 'finished', also when
\* cleanup is enabled and skipped (single file, link method).
C4_CompleteReportIsFinished ==
    Reported("complete") => result.status = "finished"

\* C5: a request that fails validation is answered {response: false, error}
\* at once: no record store call, no filesystem operation, no snatch, no
\* notification.
C5_InvalidRequestHasNoEffect ==
    [][(pc = "idle" /\ pc' # "idle" /\ ~RequestValid(req')) =>
          /\ pc' = "done"
          /\ outcome' = "invalid"
          /\ error' # ""
          /\ log' = <<>>
          /\ fs' = NoFs
          /\ UNCHANGED <<MOVIES, SEARCHRESULTS, MARKEDRESULTS>>]_vars

C5_Witness ==
    /\ pc = "done"
    /\ outcome = "invalid"
    /\ req.keys = RequiredKeys
    /\ req.apikey # DefaultConfig.apikey
    /\ error = "incorrect api key"

\* C6 as stated: a stored finished date is never changed by a later request.
C6_FinishedDateSetOnce ==
    [][\A i \in Imdbids :
          MOVIES[i].finished_date # NoDate =>
              MOVIES'[i].finished_date = MOVIES[i].finished_date]_vars

\* C6, amended: a stored finished date is changed only by a complete request
\* for that imdb id; every complete request that knows the imdb id stores the
\* date of that request, whatever was stored; a failed request never changes it.
C6_FinishedDateSetByComplete ==
    [][/\ \A i \in Imdbids :
             MOVIES'[i].finished_date # MOVIES[i].finished_date =>
                 /\ req.mode = "complete"
                 /\ data.imdbid = i
                 /\ MOVIES'[i].finished_date = Date(today)
       /\ (pc = "complete_status" /\ pc' # pc /\ data.imdbid # NULL) =>
             MOVIES'[data.imdbid].finished_date = Date(today)]_vars

C6_Witness ==
    /\ Reported("failed")
    /\ data.imdbid = "tt1"
    /\ Called("manage", "movie_status")
    /\ MOVIES["tt1"].finished_date = Date(0)

\* C7: every report of the complete branch has an entry for rename, move and
\* cleanup, each with 'enabled' equal to its configuration option.
C7_EveryStepHasItsEntry ==
    Reported("complete") =>
        /\ result.tasks.renamer.present
        /\ result.tasks.renamer.enabled = B(cfg.renamerenabled)
        /\ result.tasks.mover.present
        /\ result.tasks.mover.enabled = B(cfg.moverenabled)
        /\ result.tasks.cleanup.present
        /\ result.tasks.cleanup.enabled = B(cfg.cleanupenabled)

\* C8: in the failed branch, whether marking the search result Bad returned
\* true or false, the marked-result update, the movie status recompute, the
\* cleanup (when configured) and the autograb (when configured) are attempted
\* and recorded, and the request ends with a report.
C8_FailedStepsAreIndependent ==
    (req.mode = "failed" /\ pc = "done" /\ result.tasks.guid.sr \in {"true", "false"}) =>
        /\ outcome = "report"
        /\ result.tasks.guid.mr \in {"true", "false"}
        /\ Called("manage", "markedresults")
        /\ result.tasks.update_movie_status # UNSET
        /\ data.imdbid # NULL => Called("manage", "movie_status")
        /\ result.tasks.cleanup.present
        /\ result.tasks.cleanup.enabled = B(cfg.cleanupfailed)
        /\ cfg.cleanupfailed =>
              Called("self", "cleanup") /\ Attempted(result.tasks.cleanup)
        /\ result.tasks.autograb.present
        /\ result.tasks.autograb.enabled = B(cfg.autograb)
        /\ cfg.autograb => Attempted(result.tasks.autograb)

C8_Witness ==
    /\ Reported("failed")
    /\ result.tasks.guid.sr = "false"
    /\ result.tasks.guid.mr = "true"
    /\ cfg.cleanupfailed
    /\ result.tasks.cleanup.response = "true"
    /\ cfg.autograb
    /\ result.tasks.autograb.response = "true"

\* C9: the stored finished_file of a movie is written only when the Mover
\* succeeded, with the new location; otherwise the stored value stays.
C9_FinishedFileWrittenOnMoveOnly ==
    [][\A i \in Imdbids :
          (MOVIES[i].present /\ MOVIES'[i].finished_file # MOVIES[i].finished_file) =>
              /\ result.tasks.mover.response = "true"
              /\ MOVIES'[i].finished_file = data.finished_file
              /\ data.finished_file = "dest"]_vars

\* the remote prefixes of the mapping that are a prefix of the path
MatchingRemotes(path, maps) ==
    {maps[i][1] : i \in {j \in 1..Len(maps) : startswith(path, maps[j][1])}}

LongestRemote(path, maps) ==
    CHOOSE r \in MatchingRemotes(path, maps) :
        \A q \in MatchingRemotes(path, maps) : Len(q) <= Len(r)

\* C10: when mappings match, the one with the longest remote prefix is applied
\* once: the leading occurrence is replaced, the rest of the path is unchanged.
C10_LongestPrefixReplacedOnce ==
    (mout.done /\ MatchingRemotes(mpath, mmaps) # {}) =>
        LET r == LongestRemote(mpath, mmaps)
        IN  mout.path = lookup(mmaps, r) \o Drop(mpath, Len(r))

\* C11: for a directory that contains at least one file, get_movie_file
\* returns a file of the greatest size, the first such in traversal order; it
\* returns '' only when the directory has no file or cannot be listed.
C11_LocateReturnsBiggestFile ==
    loc.done =>
        /\ (loc.src = "dir" /\ loc.sizes # <<>>) =>
              /\ loc.ret = "orig"
              /\ loc.index \in 1..Len(loc.sizes)
              /\ \A j \in 1..Len(loc.sizes) : loc.sizes[j] <= loc.sizes[loc.index]
              /\ \A j \in 1..(loc.index - 1) : loc.sizes[j] < loc.sizes[loc.index]
        /\ loc.ret = "" => (loc.src = "missing" \/ (loc.src = "dir" /\ loc.sizes = <<>>))

\* C16: data has a guid2 only if the request carried a downloadid, the lookup
\* by that downloadid found a stored search result and that result's guid is
\* not the guid of the request; otherwise only the primary guid is processed.
C16_Guid2OnlyFromDownloadid ==
    /\ data.guid2 # UNSET =>
          /\ data.downloadid # NULL
          /\ Called("sql", "get_single_search_result")
          /\ \E i \in 1..Len(log) :
                log[i] = Call("sql", "get_single_search_result", "downloadid")
          /\ \E row \in SearchRows :
                /\ row.downloadid = data.downloadid
                /\ row.guid = data.guid2
          /\ data.guid2 # data.guid
          /\ \A row \in SearchRows : row.guid # data.guid
    /\ data.guid2 = UNSET =>
          /\ ~result.tasks.guid2.present
          /\ \A i \in 1..Len(log) : log[i][3] # "guid2"

C16_Witness ==
    /\ Reported("failed")
    /\ data.guid = "g2"
    /\ data.guid2 = "g1"
    /\ result.tasks.guid2.present
    /\ result.tasks.guid2.sr = "true"

\* C17: in the failed branch a release is submitted to the snatcher only if
\* autograb is configured, the imdb id and the quality are known and a best
\* release was selected; the autograb entry has enabled equal to the option
\* and, when enabled, response true exactly when a release was selected and
\* its submission succeeded.
C17_AutograbOnlyWhenIdentified ==
    (RequestValid(req) /\ req.mode = "failed" /\ pc \in {"return", "done"}) =>
        /\ Called("snatcher", "download") =>
              /\ cfg.autograb
              /\ data.imdbid # NULL
              /\ data.quality \notin {NULL, UNSET}
              /\ \E i \in 1..Len(log) : log[i] = Call("snatcher", "best_release", "true")
        /\ Called("snatcher", "best_release") =>
              (cfg.autograb /\ data.imdbid # NULL /\ data.quality \notin {NULL, UNSET})
        /\ result.tasks.autograb.present
        /\ result.tasks.autograb.enabled = B(cfg.autograb)
        /\ cfg.autograb =>
              (result.tasks.autograb.response = "true" <=>
                  \E i \in 1..Len(log) : log[i] = Call("snatcher", "download", "true"))
        /\ cfg.autograb => result.tasks.autograb.response \in {"true", "false"}
        /\ ~cfg.autograb => result.tasks.autograb.response = UNSET

C17_Witness ==
    /\ Reported("failed")
    /\ cfg.autograb
    /\ data.imdbid = "tt1"
    /\ data.quality = "q"
    /\ Called("snatcher", "download")
    /\ result.tasks.autograb.response = "false"

\* the failed branch has called cleanup(data['path'])
C19_Case ==
    /\ RequestValid(req)
    /\ req.mode = "failed"
    /\ cfg.cleanupfailed
    /\ pc \in {"failed_autograb", "return", "done"}

\* C19: cleanup never raises; it returns true when the directory tree or the
\* file at path was deleted, false when the deletion met a filesystem error,
\* and false without touching the filesystem when path is neither.
C19_CleanupReturnsBool ==
    C19_Case =>
        /\ outcome # "exception"
        /\ result.tasks.cleanup.response \in {"true", "false"}
        /\ fs.given = "dir" =>
              (Called("fs", "rmtree") /\ ~Called("fs", "remove"))
        /\ fs.given = "file" =>
              (Called("fs", "remove") /\ ~Called("fs", "rmtree"))
        /\ fs.given \in {"dir", "file"} =>
              /\ result.tasks.cleanup.response = "true" => fs.src = "missing"
              /\ result.tasks.cleanup.response = "false" => fs.src = fs.given
        /\ fs.given = "missing" =>
              /\ result.tasks.cleanup.response = "false"
              /\ ~Called("fs", "rmtree")
              /\ ~Called("fs", "remove")
              /\ fs.src = "missing"

C19_Witness ==
    /\ C19_Case
    /\ pc = "done"
    /\ fs.given = "missing"
    /\ result.tasks.cleanup.response = "false"

\* the template has a curly-brace group: a '{' with a '}' somewhere after it
HasBraceGroup(s) ==
    \E i \in 1..Len(s) : \E j \in (i + 1)..Len(s) : s[i] = "{" /\ s[j] = "}"

\* the template has a {field} placeholder: a '{', a name, a '}'
HasPlaceholder(s) ==
    \E i \in 1..Len(s) : \E j \in (i + 2)..Len(s) :
        /\ s[i] = "{"
        /\ s[j] = "}"
        /\ \A k \in (i + 1)..(j - 1) : s[k] \notin {"{", "}"}

\* the complete branch has run the renamer step with a template without group
C14_Case ==
    /\ req.mode = "complete"
    /\ cfg.renamerenabled
    /\ ~HasBraceGroup(cfg.renamerstring)
    /\ pc \in {"complete_mover", "complete_persist", "complete_cleanup", "return", "done"}

\* C14: the renamer rejects every template without a curly-brace group: it
\* returns '', renames nothing on disk, and the complete branch records the
\* rename response false.
C14_TemplateWithoutGroupRejected ==
    C14_Case =>
        /\ result.tasks.renamer = [present |-> TRUE, enabled |-> "true",
                                   response |-> "false"]
        /\ ~Called("fs", "rename")
        /\ "renamed" \notin fs.files
        /\ data.movie_file = data.original_file

C14_Witness ==
    /\ C14_Case
    /\ Reported("complete")
    /\ data.movie_file = "orig"
    /\ "orig" \in fs.files

\* C20: the placeholder check accepts every template that has a {field}
\* placeholder, wherever in the template it stands.
C20_PlaceholderAnywhereAccepted ==
    (tpl.done /\ HasPlaceholder(tpl.string)) => tpl.valid

\* each character of s that is in cs replaced by r
RECURSIVE EachReplaced(_, _, _)
EachReplaced(s, cs, r) ==
    IF s = <<>> THEN <<>>
    ELSE (IF Head(s) \in cs THEN r ELSE <<Head(s)>>) \o EachReplaced(Tail(s), cs, r)

\* the drive prefix of s on the platform
DrivePrefix(s, platform) ==
    IF platform = "windows" /\ Len(s) >= 2 /\ s[2] = ":" THEN SubSeq(s, 1, 2) ELSE <<>>

\* s without the illegal characters that follow an illegal character
RunsCollapsed(s) ==
    LET keep == {i \in 1..Len(s) : ~(i > 1 /\ s[i] \in Illegal /\ s[i - 1] \in Illegal)}
        RECURSIVE pick(_)
        pick(i) == IF i > Len(s) THEN <<>>
                   ELSE (IF i \in keep THEN <<s[i]>> ELSE <<>>) \o pick(i + 1)
    IN  pick(1)

\* C15 as stated: 'Movie: Part*Two' with replacement '' gives 'Movie Part Two';
\* each of " * ? < > | and each ':' outside the drive prefix is replaced by r,
\* every other character and the drive prefix are left untouched.
C15_EachIllegalCharReplaced ==
    san.done =>
        /\ (san.string = MoviePartTwo /\ san.repl = <<>>) =>
              san.ret = <<"M", "o", "v", "i", "e", " ", "P", "a", "r", "t", " ",
                          "T", "w", "o">>
        /\ LET drive == DrivePrefix(san.string, san.platform)
           IN  san.ret = drive \o EachReplaced(Drop(san.string, Len(drive)),
                                              Illegal \cup {":"}, san.repl)

\* C15, amended: 'Movie: Part*Two' with replacement '' gives 'Movie PartTwo';
\* every run of consecutive characters among " * ? < > | is replaced by one r,
\* then each ':' outside the drive prefix of that string is replaced by r;
\* every other character is left untouched.
C15_IllegalRunsReplaced ==
    san.done =>
        /\ (san.string = MoviePartTwo /\ san.repl = <<>>) =>
              san.ret = <<"M", "o", "v", "i", "e", " ", "P", "a", "r", "t",
                          "T", "w", "o">>
        /\ LET s1    == EachReplaced(RunsCollapsed(san.string), Illegal, san.repl)
               drive == DrivePrefix(s1, san.platform)
           IN  san.ret = drive \o EachReplaced(Drop(s1, Len(drive)), {":"}, san.repl)

C15_Witness ==
    /\ san.done
    /\ san.platform = "windows"
    /\ san.repl = <<"_">>
    /\ san.string = <<"a", ":", "*", "?">>
    /\ san.ret = <<"a", ":", "_">>


C13_AnyStepFailureReturnsBlank ==
    (mv.pc = "returned" /\ mv.failed # "none") => mv.ret = ""

\* C13: a failure to create the target folder, to displace the previous
\* finished file or the file in the way, to place the file or to create the
\* symbolic link makes mover return '' with no later step run; a failed copy of
\* an additional file is logged and mover returns the new location.
C13_FailureBeforeSidecarsReturnsBlank ==
    /\ (mv.pc = "returned" /\ mv.failed \in {"mkdir", "old", "dst", "place", "symlink"}) =>
          /\ mv.ret = ""
          /\ ~mv.copied
          /\ mv.failed = "mkdir" => ~mv.tdir
          /\ mv.failed # "symlink" => (mv.source /\ mv.target # mv.n /\ ~mv.link)
          /\ mv.failed = "symlink" => (~mv.source /\ mv.target = mv.n /\ ~mv.link)
    /\ (mv.pc = "returned" /\ mv.failed = "sidecar") =>
          (mv.ret = "dest" /\ mv.target = mv.n /\ ~mv.copied)

C13_Witness ==
    /\ mv.pc = "returned" /\ mv.failed = "symlink" /\ mv.ret = ""
    /\ mv.target = mv.n /\ ~mv.source

\* C18: two requests for different guids of different movies, with their own
\* source and target paths and their own names in the recycle bin, end,
\* however their calls interleave, with the reports, record store and
\* filesystem of one of the two runs in which one request follows the other.
C18_InterleavedAsSerial ==
    (/\ par.pc = "on"
     /\ ~par.cfg.same
     /\ \A p \in Procs : par.proc[p].pc = "done")
        => ParOutcome(par) \in ParSerial(par.cfg)

\* C21: in the complete branch, once the Renamer has run, a failed rename
\* leaves data['movie_file'] the located file, which is still where it was,
\* and a rename that went through makes it the new name in the same directory,
\* where the file now is; data['original_file'] is the located path in both
\* cases, and data is what the Mover is called with.
C21_Case ==
    /\ RequestValid(req) /\ req.mode = "complete"
    /\ pc = "complete_mover"
    /\ cfg.renamerenabled

C21_RenamerLeavesOrSetsMovieFile ==
    C21_Case =>
        /\ data.original_file \in {"orig", "", NULL}
        /\ result.tasks.renamer.response \in {"true", "false"}
        /\ result.tasks.renamer.response = "false" =>
              (data.movie_file = data.original_file /\ "renamed" \notin fs.files)
        /\ result.tasks.renamer.response = "true" =>
              (/\ data.original_file = "orig"
               /\ data.movie_file = "renamed"
               /\ "renamed" \in fs.files /\ "orig" \notin fs.files)

C21_Witness ==
    /\ C21_Case
    /\ result.tasks.renamer.response = "false"
    /\ cfg.renamerstring = DefaultConfig.renamerstring
    /\ data.movie_file = "orig"
    /\ Called("fs", "rename")

\* C22: in the complete branch, after a rename that went through, a Mover
\* with method hardlink that can create the target folder, finds no file in
\* the way and is let through by the filesystem returns the new location,
\* where a link to the movie file then exists.
C22_HardlinkAfterRenameSucceeds ==
    (/\ RequestValid(req) /\ req.mode = "complete"
     /\ pc = "complete_mover"
     /\ result.tasks.renamer.response = "true"
     /\ cfg.moverenabled /\ cfg.movermethod = "hardlink")
        => \A e \in MoverEnv :
              (e.mkdir = "ok" /\ e.old # "stuck" /\ e.dst = "absent" /\ e.place)
                 => LET m == mover(data, cfg, fs, e)
                    IN  m.ret = "dest" /\ "dest" \in m.fs.files

\* C23: when mover has returned, '' or the new location, under either
\* collision policy, the file it was called for is at its source, in the
\* target folder or in the recycle bin, also when data['finished_file'] is
\* that file and when the target folder is the folder the file lies in.
C23_MovieFileSurvivesMover ==
    mv.pc = "returned" =>
        (mv.source \/ mv.target = mv.n \/ mv.n \in mv.bin)

\* C24: whatever the template, the values, the replacement for illegal
\* characters and the remote mapping, what compile_path returns has no two
\* spaces in a row and, when longer than one character, does not end with a
\* space; '{a} {b}' with a = 'X' and b = '' gives 'X'.
C24_CompiledHasNoSpaceRuns ==
    cmp.done =>
        /\ ~contains(cmp.ret, <<" ", " ">>)
        /\ Len(cmp.ret) > 1 => cmp.ret[Len(cmp.ret)] # " "
        /\ (/\ cmp.string = TemplateAB
            /\ cmp.data[<<"a">>] = <<"X">> /\ cmp.data[<<"b">>] = <<>>)
              => cmp.ret = <<"X">>

\* C25: every file the loop has copied into the target folder bears the stem
\* of the movie file placed there, whether the Renamer is enabled, whether it
\* renamed the file and whether spaces are replaced.
C25_SidecarsBearMovieName ==
    \A f \in sc.target : f[4] \in 1..Len(sc.files) => f[1] = sc.movie

\* C26: a step of the loop replaces no file of the target folder, the movie
\* file and the copies made before included; what it adds comes from a file
\* whose extension is to be kept and gets the first of stem.ext, stem(1).ext,
\* ... that was no file.
C26_SidecarsNeverOverwrite ==
    [][sc.pc = "loop" =>
          /\ sc.target \subseteq sc'.target
          /\ \A f \in sc'.target \ sc.target :
                /\ f[4] = sc.i
                /\ sc.files[sc.i] = f[3] /\ f[3] \in sc.cfg.moveextensions
                /\ \A n \in 0..(f[2] - 1) : isfile(sc.target, f[1], n, f[3])
                /\ ~isfile(sc.target, f[1], f[2], f[3])]_vars

C26_Witness ==
    /\ sc.pc = "returned"
    /\ \E f \in sc.target : f[4] = 2 /\ f[2] = 2 /\ f[3] = "srt"
    /\ \E f \in sc.target : f[4] = 1 /\ f[3] = "mkv" /\ f[2] = 1

\* places of a call in the log
Places(call) == {i \in 1..Len(log) : log[i] = call}

\* the calls of complete, in the order of its source
CompleteCalls ==
    <<Call("manage", "searchresults", "guid"), Call("manage", "markedresults", "guid"),
      Call("manage", "searchresults", "guid2"), Call("manage", "markedresults", "guid2"),
      Call("sql", "row_exists", "imdbid"), Call("manage", "add_movie", "data"),
      Call("manage", "movie_status", "imdbid"),
      Call("sql", "update_multiple", "finished_date"),
      Call("self", "renamer", "data"), Call("self", "mover", "data"),
      Call("sql", "update", "finished_file"), Call("self", "cleanup", "path")>>

\* C27: in a complete request every call of complete is made at most once
\* and in the order of the list above; a search result is marked only with
\* its guid and the imdb id known; a movie that was missing is inserted with
\* status Disabled before its status is recomputed and the finished date and
\* score are written; the Renamer runs before the Mover and Cleanup after it.
C27_CompleteStepsInOrder ==
    (RequestValid(req) /\ req.mode = "complete") =>
        /\ \A k \in 1..Len(CompleteCalls) : Cardinality(Places(CompleteCalls[k])) <= 1
        /\ \A k, l \in 1..Len(CompleteCalls) :
              k < l => \A i \in Places(CompleteCalls[k]), j \in Places(CompleteCalls[l]) : i < j
        /\ Called("manage", "searchresults") => data.imdbid # NULL
        /\ Places(Call("manage", "searchresults", "guid")) # {} => data.guid # ""
        /\ Places(Call("manage", "searchresults", "guid2")) # {} =>
              data.guid2 \notin {UNSET, ""}
        /\ Called("manage", "add_movie") =>
              (data.status = "Disabled" /\ MOVIES[data.imdbid].present)

C27_Witness ==
    /\ RequestValid(req) /\ req.mode = "complete" /\ pc = "done"
    /\ Called("manage", "searchresults") /\ Called("manage", "add_movie")
    /\ Called("self", "renamer") /\ Called("self", "mover")
    /\ Called("self", "cleanup")
====
